---- MODULE Spec2Model ----
(***************************************************************************)
(* Model of pkg/hoist/hoist_launchable.go: the hoist Launchable.  Several   *)
(* processes (deployment agents) operate on one launchable root directory; *)
(* every process runs one Launchable method at a time, one filesystem or   *)
(* collaborator call per step.                                             *)
(***************************************************************************)
EXTENDS Naturals, Sequences, FiniteSets, TLC

\* ------------------------------------------------------------ bounds
\* Number of children the multi-service archive keeps under bin/launch.
MaxServices == 2

\* ------------------------------------------------------- the launchable
Procs == {"p1", "p2"}

Id == "app"
RunAs == "appuser"
Creator == "root"
RootDir == <<"data", "pods", "app">>
RunitRoot == <<"var", "service">>

\* The archive suffix Version() cuts off, byte by byte.
Suffix == <<".", "t", "a", "r", ".", "g", "z">>

\* A Location is split where filepath.Base splits it: the part up to the last
\* separator and the base name, the latter as its bytes.
LocMulti == [dir |-> "http://repo/app", base |-> <<"a", "_", "1">> \o Suffix]
LocSingle == [dir |-> "http://repo/app", base |-> <<"a", "_", "2">> \o Suffix]
Locations == {LocMulti, LocSingle}

RECURSIVE Str(_)
Str(s) == IF s = <<>> THEN "" ELSE Head(s) \o Str(Tail(s))

Base(location) == location.base

\* Version cutting with strings.TrimRight(fileName, ".tar.gz") instead of slicing.
RECURSIVE TrimRight(_)
TrimRight(s) ==
    IF s # <<>> /\ s[Len(s)] \in {Suffix[i] : i \in 1..Len(Suffix)}
    THEN TrimRight(SubSeq(s, 1, Len(s) - 1))
    ELSE s
Version_trimRight(location) == Str(TrimRight(Base(location)))

Version(location) ==
    LET fileName == Base(location)
    IN  Str(SubSeq(fileName, 1, Len(fileName) - Len(Suffix)))

Versions == {Version(l) : l \in Locations}

CurrentDir == RootDir \o <<"current">>
LastDir == RootDir \o <<"last">>

\* ---------------------------------------------------------------- errors
Err(type, errno, text) == [type |-> type, errno |-> errno, text |-> text]
nil == Err("nil", "", "")
Unset == Err("unset", "", "")
Errorf(text) == Err("util.Error", "", text)
PathError(op, errno) == Err("os.PathError", errno, op)
ExitError == Err("exec.ExitError", "", "exit status 1")
SuperviseOkMissing == Err("runit", "", "supervise/ok missing")
SvError == Err("runit", "", "sv failed")

\* os.IsNotExist: true of an error whose underlying errno is ENOENT.
IsNotExist(err) == err.errno = "ENOENT"

\* ------------------------------------------------------------ filesystem
\* A tree is the set of nodes below (and including) an install directory,
\* each addressed by its path relative to the install directory.
Node(path, kind, data, target, uid) ==
    [path |-> path, kind |-> kind, data |-> data, target |-> target, uid |-> uid]
Has(tree, path) == \E n \in tree : n.path = path
Get(tree, path) == CHOOSE n \in tree : n.path = path
Put(tree, node) == {n \in tree : n.path # node.path} \cup {node}

\* filepath.Dir on a path of components ("." is the empty path).
Dir(path) == IF Len(path) = 0 THEN <<>> ELSE SubSeq(path, 1, Len(path) - 1)
Last(path) == path[Len(path)]
IsDirAt(tree, path) == Has(tree, path) /\ Get(tree, path).kind = "dir"

\* Lexical resolution of ".." components; a path that leaves the tree keeps
\* a leading "..", which names nothing in the tree.
RECURSIVE Clean(_)
Clean(path) ==
    IF path = <<>> THEN <<>>
    ELSE LET r == Clean(Dir(path))
             c == Last(path)
         IN  IF c # ".." THEN Append(r, c)
             ELSE IF r = <<>> \/ Last(r) = ".." THEN Append(r, c)
             ELSE Dir(r)

\* filepath.Join: empty elements are ignored and the result is cleaned.
Join(elem) == Clean(SelectSeq(elem, LAMBDA c : c # "" /\ c # "."))

InstallDir(location) == Join(RootDir \o <<"installs", Version(location)>>)

\* os.Stat of <tree root>/path: the node found after following symlinks at the
\* final component; ok is FALSE when the lookup ends on a missing name (ENOENT).
RECURSIVE StatFrom(_, _, _)
StatFrom(tree, path, hops) ==
    IF ~Has(tree, path) \/ hops = 0
    THEN [ok |-> FALSE, node |-> Node(path, "", "", <<>>, "")]
    ELSE LET n == Get(tree, path)
         IN  IF n.kind = "symlink"
             THEN StatFrom(tree, Clean(Dir(path) \o n.target), hops - 1)
             ELSE [ok |-> TRUE, node |-> n]
Stat(tree, path) == StatFrom(tree, path, 8)

RECURSIVE CommonLen(_, _)
CommonLen(a, b) ==
    IF a # <<>> /\ b # <<>> /\ Head(a) = Head(b)
    THEN 1 + CommonLen(Tail(a), Tail(b))
    ELSE 0

\* filepath.Rel(basepath, targpath) for clean relative paths.
Rel(basepath, targpath) ==
    LET k == CommonLen(basepath, targpath)
    IN  [i \in 1..(Len(basepath) - k) |-> ".."] \o SubSeq(targpath, k + 1, Len(targpath))

\* A symlink as a pointer entry (current, last, or the temporary link).
Link(target, uid) == [present |-> TRUE, target |-> target, uid |-> uid]
NoLink == [present |-> FALSE, target |-> <<>>, uid |-> ""]

\* --------------------------------------------------------------- archives
Entry(type, name, linkname) == [type |-> type, name |-> name, linkname |-> linkname]

\* Directory listing order of ioutil.ReadDir: sorted by file name.
SortedNames == <<"cron", "mail", "web", "worker">>
ServiceNames == {SortedNames[i] : i \in (Len(SortedNames) - MaxServices + 1)..Len(SortedNames)}

RECURSIVE SeqOfNames(_, _)
SeqOfNames(names, i) ==
    IF i > Len(SortedNames) THEN <<>>
    ELSE (IF SortedNames[i] \in names THEN <<SortedNames[i]>> ELSE <<>>)
         \o SeqOfNames(names, i + 1)

\* bin/launch is a directory of services; an enable hook, no disable hook.
MultiArchive ==
    <<Entry("dir", <<"bin">>, <<>>), Entry("dir", <<"bin", "launch">>, <<>>)>>
    \o [i \in 1..MaxServices |->
          Entry("reg", <<"bin", "launch", SeqOfNames(ServiceNames, 1)[i]>>, <<>>)]
    \o <<Entry("reg", <<"bin", "enable">>, <<>>)>>

\* bin/launch is a regular file; the disable hook is a hardlink to it and the
\* post-activate hook a symlink to it.
SingleArchive ==
    <<Entry("dir", <<"bin">>, <<>>),
      Entry("reg", <<"bin", "launch">>, <<>>),
      Entry("link", <<"bin", "disable">>, <<"bin", "launch">>),
      Entry("symlink", <<"bin", "post-activate">>, <<"launch">>)>>

\* The same artifact with a FIFO entry in the middle.
FifoArchive ==
    <<Entry("dir", <<"bin">>, <<>>),
      Entry("reg", <<"bin", "launch">>, <<>>),
      Entry("fifo", <<"pipe">>, <<>>),
      Entry("link", <<"bin", "disable">>, <<"bin", "launch">>)>>

VARIABLES
    served,     \* what the artifact server holds at each location
    installs,   \* version -> tree of <RootDir>/installs/<version> ({} = absent)
    current,    \* the <RootDir>/current symlink
    last,       \* the <RootDir>/last symlink
    tmp,        \* per process: its temporary directory inside RootDir
    ostmp,      \* per process: its temporary download directory
    observed,   \* what an outside reader of `current` saw last
    pc,         \* per process: position in the running method
    op,         \* per process: the method called
    hl,         \* per process: Location of the Launchable it works on
    idx,        \* per process: loop position (archive entry or executable)
    fetched,    \* per process: FetchToFile was invoked in this call
    execs,      \* per process: result of Executables
    issued,     \* per process: supervisor requests issued in this call
    ran,        \* per process: hook scripts executed in this call
    rets,       \* per process: what the calls made inside this call returned
    out,        \* per process: captured hook output
    res         \* per process: the error the method returned

fsVars == <<installs, current, last>>
localVars == <<idx, fetched, execs, issued, ran, rets, out>>
vars == <<served, installs, current, last, tmp, ostmp, observed, pc, op, hl,
          idx, fetched, execs, issued, ran, rets, out, res>>

NoTmp == [exists |-> FALSE, link |-> NoLink]

\* The errors returned so far by cgroups.Default.Write (Launch, line 64), Start
\* (Launch, line 71) and invokeBinScript (lines 81, 92, 103).
NoRets == [cg |-> Unset, start |-> Unset, hook |-> Unset]

ArchiveAt(location) == served[location]

\* Launchable.Installed: os.Stat of the install directory succeeds.
Installed(location) == Stat(installs[Version(location)], <<>>).ok


Ops == {"Install", "MakeCurrent", "MakeLast", "Launch", "Halt", "Start", "Stop",
        "Enable", "Disable", "PostActivate", "Executables"}

\* First position of each method.
EntryPc(o) ==
    CASE o = "Install" -> "install"
      [] o \in {"MakeCurrent", "MakeLast"} -> "flip_tmpdir"
      [] o = "Launch" -> "launch_cgroup"
      [] o \in {"Start", "Stop", "Executables"} -> "executables"
      [] OTHER -> "hook_stat"

\* The hook script a method invokes.
ScriptOf(o) ==
    CASE o \in {"Enable", "Launch"} -> "enable"
      [] o \in {"Disable", "Halt"} -> "disable"
      [] OTHER -> "post-activate"

Init ==
    /\ served \in {[l \in Locations |->
                      IF l = LocMulti THEN MultiArchive ELSE a] :
                   a \in {SingleArchive, FifoArchive}}
    /\ installs = [v \in Versions |-> {}]
    /\ current = NoLink
    /\ last = NoLink
    /\ tmp = [p \in Procs |-> NoTmp]
    /\ ostmp = [p \in Procs |-> "none"]
    /\ observed = NoLink
    /\ pc = [p \in Procs |-> "idle"]
    /\ op = [p \in Procs |-> "none"]
    /\ hl = [p \in Procs |-> LocMulti]
    /\ idx = [p \in Procs |-> 0]
    /\ fetched = [p \in Procs |-> FALSE]
    /\ execs = [p \in Procs |-> <<>>]
    /\ issued = [p \in Procs |-> <<>>]
    /\ ran = [p \in Procs |-> {}]
    /\ rets = [p \in Procs |-> NoRets]
    /\ out = [p \in Procs |-> ""]
    /\ res = [p \in Procs |-> Unset]

\* A caller constructs a Launchable for a location and calls one method.
BeginWith(p, ops, locations) ==
    /\ pc[p] = "idle"
    /\ \E o \in ops, l \in locations :
          /\ op' = [op EXCEPT ![p] = o]
          /\ hl' = [hl EXCEPT ![p] = l]
          /\ pc' = [pc EXCEPT ![p] = EntryPc(o)]
    /\ UNCHANGED <<served, fsVars, tmp, ostmp, observed, localVars, res>>

Begin(p) == BeginWith(p, Ops, Locations)

\* The caller takes the result; the call's locals are gone.
Return(p) ==
    /\ pc[p] = "done"
    /\ pc' = [pc EXCEPT ![p] = "idle"]
    /\ op' = [op EXCEPT ![p] = "none"]
    /\ hl' = [hl EXCEPT ![p] = LocMulti]
    /\ idx' = [idx EXCEPT ![p] = 0]
    /\ fetched' = [fetched EXCEPT ![p] = FALSE]
    /\ execs' = [execs EXCEPT ![p] = <<>>]
    /\ issued' = [issued EXCEPT ![p] = <<>>]
    /\ ran' = [ran EXCEPT ![p] = {}]
    /\ rets' = [rets EXCEPT ![p] = NoRets]
    /\ out' = [out EXCEPT ![p] = ""]
    /\ res' = [res EXCEPT ![p] = Unset]
    /\ UNCHANGED <<served, fsVars, tmp, ostmp, observed>>

\* The method returns e; the deferred os.RemoveAll calls remove the
\* temporary directories the call created.
Finish(p, e) ==
    /\ pc' = [pc EXCEPT ![p] = "done"]
    /\ res' = [res EXCEPT ![p] = e]
    /\ tmp' = [tmp EXCEPT ![p] = NoTmp]
    /\ ostmp' = [ostmp EXCEPT ![p] = "none"]

\* The method goes on to position l.
Goto(p, l) ==
    /\ pc' = [pc EXCEPT ![p] = l]
    /\ UNCHANGED res

\* ----------------------------------------------------------------- Install
\* Install without the installed test.
InstallCheck_always(p) ==
    /\ pc[p] = "install"
    /\ Goto(p, "install_fetch") /\ UNCHANGED <<tmp, ostmp>>
    /\ UNCHANGED <<served, fsVars, observed, op, hl, localVars>>

\* Install waiting while another process installs the same version.
InstallCheck_locked(p) ==
    /\ pc[p] = "install"
    /\ \A q \in Procs \ {p} :
          ~(/\ op[q] = "Install" /\ Version(hl[q]) = Version(hl[p])
            /\ pc[q] \notin {"idle", "install", "done"})
    /\ IF Installed(hl[p])
       THEN Finish(p, nil)
       ELSE Goto(p, "install_fetch") /\ UNCHANGED <<tmp, ostmp>>
    /\ UNCHANGED <<served, fsVars, observed, op, hl, localVars>>

\* Install, lines 222-226: no-op when already installed.
InstallCheck(p) ==
    /\ pc[p] = "install"
    /\ IF Installed(hl[p])
       THEN Finish(p, nil)
       ELSE Goto(p, "install_fetch") /\ UNCHANGED <<tmp, ostmp>>
    /\ UNCHANGED <<served, fsVars, observed, op, hl, localVars>>

\* Install, lines 228-245: temporary directory, fetch callback, open.
InstallFetch(p) ==
    /\ pc[p] = "install_fetch"
    /\ \/ /\ Finish(p, Errorf("Could not create temporary directory"))
          /\ UNCHANGED fetched
       \/ /\ fetched' = [fetched EXCEPT ![p] = TRUE]
          /\ \E e \in {Err("uri", "", "fetch failed"), PathError("open", "ENOENT")} :
                Finish(p, e)
       \/ /\ fetched' = [fetched EXCEPT ![p] = TRUE]
          /\ ostmp' = [ostmp EXCEPT ![p] = "file"]
          /\ Goto(p, "extract_root")
          /\ UNCHANGED tmp
    /\ UNCHANGED <<served, fsVars, observed, op, hl, idx, execs, issued, ran,
                   rets, out>>

\* extractTarGz, lines 325-344: gzip reader, user ids, root directory.
extractRoot(p) ==
    LET v == Version(hl[p])
        have == Has(installs[v], <<>>)
        made == IF have THEN installs[v]
                ELSE Put(installs[v], Node(<<>>, "dir", "", <<>>, RunAs))
    IN  /\ pc[p] = "extract_root"
        /\ \/ /\ \E e \in {Errorf("Unable to create gzip reader"),
                           Err("user", "", "unknown user"),
                           Errorf("Unable to create root directory")} :
                    Finish(p, e)
              /\ UNCHANGED <<installs, idx>>
           \/ /\ installs' = [installs EXCEPT ![v] = made]
              /\ Finish(p, Errorf("Unable to chown root directory"))
              /\ UNCHANGED idx
           \/ /\ installs' = [installs EXCEPT ![v] =
                    Put(made, Node(<<>>, "dir", "", <<>>, RunAs))]
              /\ idx' = [idx EXCEPT ![p] = 1]
              /\ Goto(p, "extract_next")
              /\ UNCHANGED <<tmp, ostmp>>
        /\ UNCHANGED <<served, current, last, observed, op, hl, fetched, execs,
                       issued, ran, rets, out>>

\* os.Symlink(target, dest/name): needs the parent directory, refuses an
\* existing name.
CanSymlink(tree, name) == IsDirAt(tree, Dir(name)) /\ ~Has(tree, name)

\* The link name of a hardlink entry written as it is, as for a symlink entry.
HardlinkTarget_asIs(hdr) == hdr.linkname

\* The symlink target extraction writes for a hardlink entry, lines 365-371.
HardlinkTarget(hdr) == Rel(Dir(hdr.name), hdr.linkname)

\* extractTarGz, lines 346-405: one archive entry.
extractNext(p) ==
    LET v == Version(hl[p])
        tree == installs[v]
        a == ArchiveAt(hl[p])
    IN  /\ pc[p] = "extract_next"
        /\ \/ /\ idx[p] > Len(a)
              /\ Finish(p, nil)
              /\ UNCHANGED <<installs, idx>>
           \/ /\ idx[p] <= Len(a)
              /\ Finish(p, Errorf("Unable to read"))
              /\ UNCHANGED <<installs, idx>>
           \/ /\ idx[p] <= Len(a)
              /\ LET hdr == a[idx[p]]
                     step(t) == /\ installs' = [installs EXCEPT ![v] = t]
                                /\ idx' = [idx EXCEPT ![p] = idx[p] + 1]
                                /\ Goto(p, "extract_next")
                                /\ UNCHANGED <<tmp, ostmp>>
                     fail(text) == /\ Finish(p, Errorf(text))
                                   /\ UNCHANGED <<installs, idx>>
                 IN  CASE hdr.type = "symlink" ->
                            IF CanSymlink(tree, hdr.name)
                            THEN step(Put(tree, Node(hdr.name, "symlink", "",
                                                     hdr.linkname, Creator)))
                            ELSE fail("Unable to create destination symlink")
                       [] hdr.type = "link" ->
                            IF CanSymlink(tree, hdr.name)
                            THEN step(Put(tree, Node(hdr.name, "symlink", "",
                                                     HardlinkTarget(hdr), Creator)))
                            ELSE fail("Unable to create destination symlink")
                       [] hdr.type = "dir" ->
                            IF Has(tree, hdr.name)
                            THEN step(Put(tree, [Get(tree, hdr.name)
                                                   EXCEPT !.uid = RunAs]))
                            ELSE IF IsDirAt(tree, Dir(hdr.name))
                            THEN step(Put(tree, Node(hdr.name, "dir", "", <<>>, RunAs)))
                            ELSE fail("Unable to create destination directory")
                       [] hdr.type = "reg" ->
                            IF IsDirAt(tree, Dir(hdr.name)) /\ ~IsDirAt(tree, hdr.name)
                            THEN /\ installs' = [installs EXCEPT ![v] =
                                       Put(tree, Node(hdr.name, "file", "empty",
                                                      <<>>, RunAs))]
                                 /\ Goto(p, "extract_copy")
                                 /\ UNCHANGED <<idx, tmp, ostmp>>
                            ELSE fail("Unable to open destination file")
                       [] OTHER -> fail("Unhandled type flag")
        /\ UNCHANGED <<served, current, last, observed, op, hl, fetched, execs,
                       issued, ran, rets, out>>

\* Extraction removing the install directory when a copy fails.
extractCopy_removeOnError(p) ==
    LET v == Version(hl[p])
        tree == installs[v]
        name == ArchiveAt(hl[p])[idx[p]].name
    IN  /\ pc[p] = "extract_copy"
        /\ \/ /\ Finish(p, Errorf("Unable to copy into destination file"))
              /\ installs' = [installs EXCEPT ![v] = {}]
              /\ UNCHANGED idx
           \/ /\ installs' = [installs EXCEPT ![v] =
                    IF Has(tree, name) /\ Get(tree, name).kind = "file"
                    THEN Put(tree, [Get(tree, name) EXCEPT !.data = "full"])
                    ELSE tree]
              /\ idx' = [idx EXCEPT ![p] = idx[p] + 1]
              /\ Goto(p, "extract_next")
              /\ UNCHANGED <<tmp, ostmp>>
        /\ UNCHANGED <<served, current, last, observed, op, hl, fetched, execs,
                       issued, ran, rets, out>>

\* extractTarGz, lines 397-401: io.Copy into the opened file.
extractCopy(p) ==
    LET v == Version(hl[p])
        tree == installs[v]
        name == ArchiveAt(hl[p])[idx[p]].name
    IN  /\ pc[p] = "extract_copy"
        /\ \/ /\ Finish(p, Errorf("Unable to copy into destination file"))
              /\ UNCHANGED <<installs, idx>>
           \/ /\ installs' = [installs EXCEPT ![v] =
                    IF Has(tree, name) /\ Get(tree, name).kind = "file"
                    THEN Put(tree, [Get(tree, name) EXCEPT !.data = "full"])
                    ELSE tree]
              /\ idx' = [idx EXCEPT ![p] = idx[p] + 1]
              /\ Goto(p, "extract_next")
              /\ UNCHANGED <<tmp, ostmp>>
        /\ UNCHANGED <<served, current, last, observed, op, hl, fetched, execs,
                       issued, ran, rets, out>>

\* ------------------------------------------------------------ flipSymlink
\* MakeLast and MakeCurrent with their pointer paths exchanged.
DestOf_swapped(o) == IF o = "MakeCurrent" THEN LastDir ELSE CurrentDir

\* The pointer path a method passes to flipSymlink, lines 283-293.
DestOf(o) == IF o = "MakeCurrent" THEN CurrentDir ELSE LastDir

\* flipSymlink, lines 296-300: ioutil.TempDir(hl.RootDir, hl.Id).
flipTempDir(p) ==
    /\ pc[p] = "flip_tmpdir"
    /\ \/ Finish(p, Errorf("Couldn't create temporary directory for symlink"))
       \/ /\ tmp' = [tmp EXCEPT ![p] = [exists |-> TRUE, link |-> NoLink]]
          /\ Goto(p, "flip_symlink")
          /\ UNCHANGED ostmp
    /\ UNCHANGED <<served, fsVars, observed, op, hl, localVars>>

\* flipSymlink, lines 301-305: os.Symlink(hl.InstallDir(), tempLinkPath).
flipMakeLink(p) ==
    /\ pc[p] = "flip_symlink"
    /\ \/ Finish(p, Errorf("Couldn't create symlink for hoist launchable"))
       \/ /\ tmp' = [tmp EXCEPT ![p].link = Link(InstallDir(hl[p]), Creator)]
          /\ Goto(p, "flip_lchown")
          /\ UNCHANGED ostmp
    /\ UNCHANGED <<served, fsVars, observed, op, hl, localVars>>

\* flipSymlink with the ownership change lost.
flipLchown_skipped(p) ==
    /\ pc[p] = "flip_lchown"
    /\ \/ \E e \in {Errorf("Couldn't retrieve UID/GID for hoist launchable"),
                    Errorf("Couldn't lchown symlink for hoist launchable")} :
             Finish(p, e)
       \/ /\ Goto(p, "flip_rename")
          /\ UNCHANGED <<tmp, ostmp>>
    /\ UNCHANGED <<served, fsVars, observed, op, hl, localVars>>

\* flipSymlink, lines 307-314: user.IDs and os.Lchown of the temporary link.
flipLchown(p) ==
    /\ pc[p] = "flip_lchown"
    /\ \/ \E e \in {Errorf("Couldn't retrieve UID/GID for hoist launchable"),
                    Errorf("Couldn't lchown symlink for hoist launchable")} :
             Finish(p, e)
       \/ /\ tmp' = [tmp EXCEPT ![p].link.uid = RunAs]
          /\ Goto(p, "flip_rename")
          /\ UNCHANGED ostmp
    /\ UNCHANGED <<served, fsVars, observed, op, hl, localVars>>

\* flipSymlink removing the old pointer before it renames the new one in.
flipRename_removeFirst(p) ==
    /\ pc[p] = "flip_rename"
    /\ \/ /\ Finish(p, Err("os.LinkError", "EACCES", "rename"))
          /\ IF DestOf(op[p]) = CurrentDir
             THEN current' = NoLink /\ UNCHANGED last
             ELSE last' = NoLink /\ UNCHANGED current
       \/ /\ Finish(p, nil)
          /\ IF DestOf(op[p]) = CurrentDir
             THEN current' = tmp[p].link /\ UNCHANGED last
             ELSE last' = tmp[p].link /\ UNCHANGED current
    /\ UNCHANGED <<served, installs, observed, op, hl, localVars>>

\* flipSymlink, line 316: os.Rename(tempLinkPath, newLinkPath).
flipRename(p) ==
    /\ pc[p] = "flip_rename"
    /\ \/ /\ Finish(p, Err("os.LinkError", "EACCES", "rename"))
          /\ UNCHANGED <<current, last>>
       \/ /\ Finish(p, nil)
          /\ IF DestOf(op[p]) = CurrentDir
             THEN current' = tmp[p].link /\ UNCHANGED last
             ELSE last' = tmp[p].link /\ UNCHANGED current
    /\ UNCHANGED <<served, installs, observed, op, hl, localVars>>

\* An external consumer resolves the `current` pointer.
ReadCurrent ==
    /\ observed' = current
    /\ UNCHANGED <<served, fsVars, tmp, ostmp, pc, op, hl, localVars, res>>

\* ------------------------------------------------------------ Executables
\* ioutil.ReadDir: the names of the direct children of dir, sorted.
ReadDir(tree, dir) ==
    SeqOfNames({Last(n.path) : n \in {m \in tree : /\ Len(m.path) = Len(dir) + 1
                                                    /\ Dir(m.path) = dir}}, 1)

\* An Executable whose path is built from the service name.
Executable_byServiceName(serviceDir, name) ==
    LET serviceName == Id \o "__" \o name
    IN  [Service |-> [Path |-> RunitRoot \o <<serviceName>>, Name |-> serviceName],
         ExecPath |-> serviceDir \o <<serviceName>>]

\* One Executable, lines 197-211: the service and the path of its program (the
\* other fields are copies of the Launchable's own).
Executable(serviceDir, name) ==
    LET serviceName == Id \o "__" \o name
    IN  [Service |-> [Path |-> RunitRoot \o <<serviceName>>, Name |-> serviceName],
         ExecPath |-> serviceDir \o <<name>>]

\* Executables without the installed test.
Executables_unchecked(location) ==
    LET tree == installs[Version(location)]
        binLaunchPath == InstallDir(location) \o <<"bin", "launch">>
        binLaunchInfo == Stat(tree, <<"bin", "launch">>)
        isDir == binLaunchInfo.node.kind = "dir"
        serviceDir == IF isDir THEN binLaunchPath ELSE Dir(binLaunchPath)
        services == IF isDir THEN ReadDir(tree, binLaunchInfo.node.path)
                    ELSE <<Last(binLaunchPath)>>
    IN  IF ~binLaunchInfo.ok
        THEN [execs |-> <<>>, err |-> Errorf("stat bin/launch: no such file or directory")]
        ELSE [execs |-> [i \in 1..Len(services) |-> Executable(serviceDir, services[i])],
              err |-> nil]

\* Launchable.Executables, lines 172-214: the executables and the error.
Executables(location) ==
    LET tree == installs[Version(location)]
        binLaunchPath == InstallDir(location) \o <<"bin", "launch">>
        binLaunchInfo == Stat(tree, <<"bin", "launch">>)
        isDir == binLaunchInfo.node.kind = "dir"
        serviceDir == IF isDir THEN binLaunchPath ELSE Dir(binLaunchPath)
        services == IF isDir THEN ReadDir(tree, binLaunchInfo.node.path)
                    ELSE <<Last(binLaunchPath)>>
    IN  IF ~Installed(location)
        THEN [execs |-> <<>>, err |-> Errorf("is not installed")]
        ELSE IF ~binLaunchInfo.ok
        THEN [execs |-> <<>>, err |-> Errorf("stat bin/launch: no such file or directory")]
        ELSE [execs |-> [i \in 1..Len(services) |-> Executable(serviceDir, services[i])],
              err |-> nil]

\* The method goes on to position l and keeps its temporary directories.
Cont(p, l) == Goto(p, l) /\ UNCHANGED <<tmp, ostmp>>

\* Launch going on to Enable whatever Start returned.
StartReturn_ignored(p, e) ==
    /\ rets' = [rets EXCEPT ![p].start = e]
    /\ IF op[p] = "Launch"
       THEN Cont(p, "hook_stat")
       ELSE Finish(p, e)

\* Start returns e: to its caller, or into Launch, lines 71-76.
StartReturn(p, e) ==
    /\ rets' = [rets EXCEPT ![p].start = e]
    /\ IF op[p] = "Launch"
       THEN IF e # nil
            THEN Finish(p, Errorf("Could not launch"))
            ELSE Cont(p, "hook_stat")
       ELSE Finish(p, e)

\* Stop returns e: to its caller, or into Halt, lines 50-55.
StopReturn(p, e) ==
    IF op[p] = "Halt" /\ e = nil
    THEN Cont(p, "flip_tmpdir")
    ELSE Finish(p, e)

\* The call of Executables that opens Start, Stop and Executables.
ExecutablesStep(p) ==
    LET r == Executables(hl[p])
    IN  /\ pc[p] = "executables"
        /\ execs' = [execs EXCEPT ![p] = r.execs]
        /\ IF op[p] = "Executables"
           THEN Finish(p, r.err) /\ UNCHANGED <<idx, rets>>
           ELSE IF op[p] \in {"Start", "Launch"}
           THEN IF r.err # nil
                THEN StartReturn(p, r.err) /\ UNCHANGED idx
                ELSE /\ idx' = [idx EXCEPT ![p] = 1]
                     /\ Cont(p, "start_loop")
                     /\ UNCHANGED rets
           ELSE IF r.err # nil
                THEN StopReturn(p, r.err) /\ UNCHANGED <<idx, rets>>
                ELSE /\ idx' = [idx EXCEPT ![p] = 1]
                     /\ Cont(p, "stop_loop")
                     /\ UNCHANGED rets
        /\ UNCHANGED <<served, fsVars, observed, op, hl, fetched, issued, ran, out>>

\* ------------------------------------------------------------ Start, Stop
Request(req, executable, err) ==
    [req |-> req, svc |-> executable.Service.Name, err |-> err]

RestartResults == {nil, SuperviseOkMissing, SvError}
StopResults == {nil, SvError}

\* Start going on after any error of the supervisor.
StartGoesOn_anyRunitError(err) == err.type = "runit"

\* Whether Start's loop goes on after sv.Restart returned err, line 164.
StartGoesOn(err) == ~(err # SuperviseOkMissing)

\* Start, lines 162-169: one pass of the loop, or its end.
StartRestart(p) ==
    /\ pc[p] = "start_loop"
    /\ \/ /\ idx[p] > Len(execs[p])
          /\ StartReturn(p, nil)
          /\ UNCHANGED <<idx, issued>>
       \/ /\ idx[p] <= Len(execs[p])
          /\ \E err \in RestartResults :
                /\ issued' = [issued EXCEPT ![p] =
                                Append(@, Request("restart", execs[p][idx[p]], err))]
                /\ IF StartGoesOn(err)
                   THEN /\ idx' = [idx EXCEPT ![p] = idx[p] + 1]
                        /\ Cont(p, "start_loop")
                        /\ UNCHANGED rets
                   ELSE StartReturn(p, err) /\ UNCHANGED idx
    /\ UNCHANGED <<served, fsVars, observed, op, hl, fetched, execs, ran, out>>

\* Stop going on to the next executable after a failed stop request.
StopRequest_keepGoing(p) ==
    /\ pc[p] = "stop_loop"
    /\ \/ /\ idx[p] > Len(execs[p])
          /\ StopReturn(p, nil)
          /\ UNCHANGED <<idx, issued>>
       \/ /\ idx[p] <= Len(execs[p])
          /\ \E err \in StopResults :
                /\ issued' = [issued EXCEPT ![p] =
                                Append(@, Request("stop", execs[p][idx[p]], err))]
                /\ idx' = [idx EXCEPT ![p] = idx[p] + 1]
                /\ Cont(p, "stop_loop")
    /\ UNCHANGED <<served, fsVars, observed, op, hl, fetched, execs, ran,
                   rets, out>>

\* Stop, lines 138-150: one pass of the loop, or its end.
StopRequest(p) ==
    /\ pc[p] = "stop_loop"
    /\ \/ /\ idx[p] > Len(execs[p])
          /\ StopReturn(p, nil)
          /\ UNCHANGED <<idx, issued>>
       \/ /\ idx[p] <= Len(execs[p])
          /\ \E err \in StopResults :
                /\ issued' = [issued EXCEPT ![p] =
                                Append(@, Request("stop", execs[p][idx[p]], err))]
                /\ IF err # nil
                   THEN StopReturn(p, err) /\ UNCHANGED idx
                   ELSE /\ idx' = [idx EXCEPT ![p] = idx[p] + 1]
                        /\ Cont(p, "stop_loop")
    /\ UNCHANGED <<served, fsVars, observed, op, hl, fetched, execs, ran,
                   rets, out>>

\* ------------------------------------------------------------------ hooks
\* The hook wrappers dropping every error.
OptionalHook_swallowAll(err) == nil

\* Enable, Disable, PostActivate, lines 80-111: the error they return for
\* the error invokeBinScript gave.
OptionalHook(err) == IF err # nil /\ ~IsNotExist(err) THEN err ELSE nil

\* invokeBinScript returned (output, err) to Enable, Disable or PostActivate,
\* which returns to its caller or into Halt (lines 44-50) or Launch (76-77).
HookReturn(p, output, err) ==
    /\ out' = [out EXCEPT ![p] = output]
    /\ rets' = [rets EXCEPT ![p].hook = err]
    /\ IF op[p] = "Halt" /\ OptionalHook(err) = nil
       THEN Cont(p, "executables")
       ELSE Finish(p, OptionalHook(err))

\* invokeBinScript, lines 114-118: os.Stat of <installDir>/bin/<script>.
invokeStat(p) ==
    LET cmdPath == <<"bin", ScriptOf(op[p])>>
    IN  /\ pc[p] = "hook_stat"
        /\ IF Stat(installs[Version(hl[p])], cmdPath).ok
           THEN Cont(p, "hook_run") /\ UNCHANGED <<out, rets>>
           ELSE HookReturn(p, "", PathError("stat", "ENOENT"))
        /\ UNCHANGED <<served, fsVars, observed, op, hl, idx, fetched, execs,
                       issued, ran>>

Outputs == {"", "script output"}

\* invokeBinScript, lines 120-129: run the script through chpst.
invokeRun(p) ==
    /\ pc[p] = "hook_run"
    /\ \/ /\ ran' = [ran EXCEPT ![p] = @ \cup {ScriptOf(op[p])}]
          /\ \E output \in Outputs, err \in {nil, ExitError} :
                HookReturn(p, output, err)
       \/ /\ UNCHANGED ran
          /\ \E errno \in {"ENOENT", "EACCES"} :
                HookReturn(p, "", PathError("fork/exec", errno))
    /\ UNCHANGED <<served, fsVars, observed, op, hl, idx, fetched, execs,
                   issued>>

\* ----------------------------------------------------------------- Launch
\* Launch, lines 64-67: cgroups.Default.Write.
LaunchCgroup(p) ==
    /\ pc[p] = "launch_cgroup"
    /\ \/ /\ rets' = [rets EXCEPT ![p].cg = Err("cgroups", "", "write failed")]
          /\ Finish(p, Errorf("Could not configure cgroup"))
       \/ /\ rets' = [rets EXCEPT ![p].cg = nil]
          /\ Cont(p, "executables")
    /\ UNCHANGED <<served, fsVars, observed, op, hl, idx, fetched, execs, issued,
                   ran, out>>

\* ------------------------------------------------------------------- spec
\* One agent calling the methods of the Launchable one after the other, and an
\* outside reader of the `current` pointer.
Agent == "p1"

Next ==
    \/ Begin(Agent)
    \/ Return(Agent)
    \/ InstallCheck(Agent)
    \/ InstallFetch(Agent)
    \/ extractRoot(Agent)
    \/ extractNext(Agent)
    \/ extractCopy(Agent)
    \/ flipTempDir(Agent)
    \/ flipMakeLink(Agent)
    \/ flipLchown(Agent)
    \/ flipRename(Agent)
    \/ LaunchCgroup(Agent)
    \/ ExecutablesStep(Agent)
    \/ StartRestart(Agent)
    \/ StopRequest(Agent)
    \/ invokeStat(Agent)
    \/ invokeRun(Agent)
    \/ ReadCurrent

Spec == Init /\ [][Next]_vars

\* Two agents installing and promoting concurrently on the same root.
ConcOps == {"Install", "MakeCurrent", "MakeLast"}
ConcBegin(p) == BeginWith(p, ConcOps, {LocSingle})

ConcNext ==
    \/ \E p \in Procs : ConcBegin(p)
    \/ \E p \in Procs : Return(p)
    \/ \E p \in Procs : InstallCheck(p)
    \/ \E p \in Procs : InstallFetch(p)
    \/ \E p \in Procs : extractRoot(p)
    \/ \E p \in Procs : extractNext(p)
    \/ \E p \in Procs : extractCopy(p)
    \/ \E p \in Procs : flipTempDir(p)
    \/ \E p \in Procs : flipMakeLink(p)
    \/ \E p \in Procs : flipLchown(p)
    \/ \E p \in Procs : flipRename(p)

ConcSpec == Init /\ [][ConcNext]_vars

\* ------------------------------------------------- Version on any location
\* Longest base name (without the suffix) a location is given.
MaxStem == 3

Chars == {"a", ".", "z"}
Stems == UNION {[1..k -> Chars] : k \in 0..MaxStem}

\* Locations whose base name is a stem, a stem followed by the suffix, or a
\* name of another archive format.
VersionLocations ==
    {[dir |-> "http://repo/app", base |-> b] :
        b \in (Stems \ {<<>>}) \cup {s \o Suffix : s \in Stems}
              \cup {<<"a", "_", "1", ".", "t", "g", "z">>}}

\* Nothing installed, no pointer, nobody inside a call.
Fresh ==
    /\ installs = [v \in Versions |-> {}]
    /\ current = NoLink
    /\ last = NoLink
    /\ tmp = [p \in Procs |-> NoTmp]
    /\ ostmp = [p \in Procs |-> "none"]
    /\ observed = NoLink
    /\ pc = [p \in Procs |-> "idle"]
    /\ op = [p \in Procs |-> "none"]
    /\ idx = [p \in Procs |-> 0]
    /\ fetched = [p \in Procs |-> FALSE]
    /\ execs = [p \in Procs |-> <<>>]
    /\ issued = [p \in Procs |-> <<>>]
    /\ ran = [p \in Procs |-> {}]
    /\ rets = [p \in Procs |-> NoRets]
    /\ out = [p \in Procs |-> ""]
    /\ res = [p \in Procs |-> Unset]

VersionInit ==
    /\ served = [l \in Locations |-> IF l = LocMulti THEN MultiArchive ELSE SingleArchive]
    /\ hl \in {[p \in Procs |-> IF p = Agent THEN l ELSE LocMulti] :
                 l \in VersionLocations}
    /\ Fresh

\* The slice expression of line 258 panics when the base name is shorter than
\* the suffix.
SliceOutOfRange == Err("runtime.Error", "", "slice bounds out of range")

\* hl.Version() called by process p; the string returned is kept in out.
VersionCall(p) ==
    /\ pc[p] = "idle"
    /\ op' = [op EXCEPT ![p] = "Version"]
    /\ IF Len(Base(hl[p])) < Len(Suffix)
       THEN Finish(p, SliceOutOfRange) /\ UNCHANGED out
       ELSE Finish(p, nil) /\ out' = [out EXCEPT ![p] = Version(hl[p])]
    /\ UNCHANGED <<served, fsVars, observed, hl, idx, fetched, execs, issued,
                   ran, rets>>

VersionNext == VersionCall(Agent)

VersionSpec == VersionInit /\ [][VersionNext]_vars

\* ------------------------------------------- extraction of hardlink entries
\* Directories of the archives below, and a name no entry creates.
LinkDirs == {<<>>, <<"a">>, <<"a", "b">>, <<"a", "c">>}
LinkNames == {d \o <<"link">> : d \in LinkDirs \cup {<<"x">>}}
LinkTargets == {d \o <<"target">> : d \in LinkDirs} \cup (LinkDirs \ {<<>>})
                 \cup {<<"x", "gone">>}

\* An archive with one hardlink entry, stored before or after the file
\* a/b/target.
LinkArchive(name, linkname, early) ==
    <<Entry("dir", <<"a">>, <<>>), Entry("dir", <<"a", "b">>, <<>>),
      Entry("dir", <<"a", "c">>, <<>>)>>
    \o (IF early THEN <<Entry("link", name, linkname)>> ELSE <<>>)
    \o <<Entry("reg", <<"a", "b", "target">>, <<>>)>>
    \o (IF early THEN <<>> ELSE <<Entry("link", name, linkname)>>)

LinkArchives ==
    {LinkArchive(n, l, e) : n \in LinkNames, l \in LinkTargets, e \in BOOLEAN}

LinkInit ==
    /\ served \in {[l \in Locations |-> IF l = LocMulti THEN MultiArchive ELSE a] :
                     a \in LinkArchives}
    /\ hl = [p \in Procs |-> LocMulti]
    /\ Fresh

LinkBegin(p) == BeginWith(p, {"Install"}, {LocSingle})

LinkNext ==
    \/ LinkBegin(Agent)
    \/ Return(Agent)
    \/ InstallCheck(Agent)
    \/ InstallFetch(Agent)
    \/ extractRoot(Agent)
    \/ extractNext(Agent)
    \/ extractCopy(Agent)

LinkSpec == LinkInit /\ [][LinkNext]_vars

\* ----------------------------------------------------------------- claims
\* The install directory of a launchable's version exists on disk.
DirExists(location) == \E n \in installs[Version(location)] : n.path = <<>>

\* Process p took the step.
Moved(p) == pc'[p] # pc[p] \/ idx'[p] # idx[p]

IsError(e) == e # nil /\ e # Unset

HookOps == {"Enable", "Disable", "PostActivate"}

\* Every entry of the archive at a location is in the install directory, files
\* with their content.
Extracted(location) ==
    /\ DirExists(location)
    /\ \A i \in 1..Len(ArchiveAt(location)) :
          LET hdr == ArchiveAt(location)[i]
              tree == installs[Version(location)]
          IN  /\ Has(tree, hdr.name)
              /\ hdr.type = "reg" => Get(tree, hdr.name).data = "full"

\* C1: when the install directory already exists, Install returns success at
\* once: the fetch callback is not invoked, nothing is extracted and the install
\* directories, the temporary directories and both pointers stay as they were.
C1_InstallIdempotent ==
    [][\A p \in Procs :
          (pc[p] = "install" /\ DirExists(hl[p]) /\ Moved(p)) =>
             /\ pc'[p] = "done"
             /\ res'[p] = nil
             /\ fetched'[p] = FALSE
             /\ idx'[p] = idx[p]
             /\ installs' = installs
             /\ tmp' = tmp
             /\ ostmp' = ostmp
             /\ current' = current
             /\ last' = last]_vars

\* A second Install of an installed version has returned success without a fetch.
C1_Witness ==
    \E p \in Procs :
        /\ pc[p] = "done" /\ op[p] = "Install"
        /\ res[p] = nil /\ ~fetched[p]
        /\ DirExists(hl[p])

\* C2: the `current` pointer changes only in the rename step of a MakeCurrent,
\* from its prior value straight to a link to the new install directory owned by
\* the run-as user; it never disappears, and a reader sees the pointer as it is:
\* the prior target or the new one, never an unowned link.
C2_AtomicPointer ==
    /\ [](observed.present => observed.uid = RunAs)
    /\ [][/\ (current' # current =>
                \E p \in Procs :
                    /\ op[p] = "MakeCurrent" /\ pc[p] = "flip_rename"
                    /\ current' = Link(InstallDir(hl[p]), RunAs))
          /\ (current.present => current'.present)
          /\ (observed' # observed => observed' = current)]_vars

\* A reader has read the prior target while a MakeCurrent to another version
\* holds its temporary link, owned and not yet renamed.
C2_Witness ==
    \E p \in Procs :
        /\ op[p] = "MakeCurrent" /\ pc[p] = "flip_rename"
        /\ current.present /\ current.target # InstallDir(hl[p])
        /\ observed = current

\* C3: when Start returns success on a launchable with N >= 1 executables,
\* exactly one restart request was issued for each of them.
C3_StartRestartsAll ==
    \A p \in Procs :
        (/\ pc[p] = "done" /\ op[p] = "Start" /\ res[p] = nil
         /\ Extracted(hl[p]) /\ Len(execs[p]) >= 1) =>
           /\ Len(issued[p]) = Len(execs[p])
           /\ \A i \in 1..Len(execs[p]) :
                 /\ issued[p][i].req = "restart"
                 /\ issued[p][i].svc = execs[p][i].Service.Name

\* C4: Launch is fail-fast: a failed resource-group write ends it with an error
\* before any restart request or hook; a failed Start ends it with an error
\* before the enable hook; the hook is looked up and run only after Start
\* returned success.
C4_LaunchFailFast ==
    \A p \in Procs :
        op[p] = "Launch" =>
           /\ IsError(rets[p].cg) =>
                 /\ pc[p] = "done" /\ IsError(res[p])
                 /\ issued[p] = <<>> /\ ran[p] = {}
                 /\ rets[p].start = Unset /\ rets[p].hook = Unset
           /\ IsError(rets[p].start) =>
                 /\ pc[p] = "done" /\ IsError(res[p])
                 /\ ran[p] = {} /\ rets[p].hook = Unset
           /\ (pc[p] \in {"hook_stat", "hook_run"} \/ ran[p] # {}
                 \/ rets[p].hook # Unset) =>
                 /\ rets[p].cg = nil
                 /\ rets[p].start = nil
           /\ issued[p] # <<>> => rets[p].cg = nil

\* Launch has returned an error after a restart request failed.
C4_Witness ==
    \E p \in Procs :
        /\ op[p] = "Launch" /\ pc[p] = "done"
        /\ rets[p].start = SvError /\ issued[p] # <<>>
        /\ Stat(installs[Version(hl[p])], <<"bin", "enable">>).ok

\* C5: Enable, Disable and PostActivate return success with empty output and run
\* nothing when bin/<hook> is not there (the install directory may be missing
\* too); when the script ran and exited non-zero they return that failure.
C5_OptionalHooks ==
    \A p \in Procs :
        (pc[p] = "done" /\ op[p] \in HookOps) =>
           /\ ~Stat(installs[Version(hl[p])], <<"bin", ScriptOf(op[p])>>).ok =>
                 /\ res[p] = nil /\ out[p] = "" /\ ran[p] = {}
           /\ rets[p].hook = ExitError =>
                 /\ res[p] = ExitError
                 /\ ScriptOf(op[p]) \in ran[p]

\* A hook that exists has exited non-zero with output.
C5_Witness ==
    \E p \in Procs :
        /\ pc[p] = "done" /\ op[p] \in HookOps
        /\ rets[p].hook = ExitError /\ out[p] # ""

\* A hook has been found absent in an install directory that exists.
C5_WitnessAbsent ==
    \E p \in Procs :
        /\ pc[p] = "done" /\ op[p] \in HookOps /\ DirExists(hl[p])
        /\ ~Stat(installs[Version(hl[p])], <<"bin", ScriptOf(op[p])>>).ok

\* C6: when the hook script exists and invoking it failed in any way, Enable,
\* Disable and PostActivate return a failure.
C6_OnlyAbsenceSwallowed ==
    \A p \in Procs :
        (/\ pc[p] = "done" /\ op[p] \in HookOps
         /\ Extracted(hl[p])
         /\ Stat(installs[Version(hl[p])], <<"bin", ScriptOf(op[p])>>).ok
         /\ IsError(rets[p].hook)) =>
           IsError(res[p])

Supported == {"symlink", "link", "dir", "reg"}

\* The archive at a location has an entry of an unsupported type and the install
\* directory holds every entry that precedes the first such entry: an
\* extraction has come as far as that entry.
StoppedAtUnsupported(location) ==
    LET a == ArchiveAt(location)
        tree == installs[Version(location)]
        bad == {i \in 1..Len(a) : a[i].type \notin Supported}
    IN  /\ bad # {}
        /\ DirExists(location)
        /\ \A i \in 1..Len(a) :
              (\A j \in bad : i < j) =>
                 /\ Has(tree, a[i].name)
                 /\ a[i].type = "reg" => Get(tree, a[i].name).data = "full"

\* C7: after an Install that failed on an unsupported entry type Installed()
\* is not true, and a later Install of that location does not return success
\* while the archive is not extracted completely.
C7_NoSuccessSignal ==
    \A p \in Procs :
        (pc[p] = "done" /\ op[p] = "Install") =>
           /\ res[p] = Errorf("Unhandled type flag") => ~Installed(hl[p])
           /\ (res[p] = nil /\ StoppedAtUnsupported(hl[p])) => Extracted(hl[p])

\* The second half of C7 alone: the later Install.
C7_NoLaterSuccess ==
    \A p \in Procs :
        (pc[p] = "done" /\ op[p] = "Install" /\ res[p] = nil
         /\ StoppedAtUnsupported(hl[p])) => Extracted(hl[p])

\* C8: after a successful Halt `last` is a link to the install directory of the
\* launchable's own version, which exists; no step of a Halt changes `current`.
C8_HaltMakesLast ==
    /\ [](\A p \in Procs :
             (pc[p] = "done" /\ op[p] = "Halt" /\ res[p] = nil) =>
                /\ last = Link(InstallDir(hl[p]), RunAs)
                /\ DirExists(hl[p]))
    /\ [][\A p \in Procs : (op[p] = "Halt" /\ Moved(p)) => current' = current]_vars

\* A Halt has succeeded while `current` points at another version.
C8_Witness ==
    \E p \in Procs :
        /\ pc[p] = "done" /\ op[p] = "Halt" /\ res[p] = nil
        /\ current.present /\ current.target # InstallDir(hl[p])
        /\ issued[p] # <<>>

\* C9: without an install directory Executables fails with the not-installed
\* error; Start and Stop then fail with it and issue no supervisor request, and
\* Halt fails with it and leaves `last` as it was.
C9_RequiresInstalled ==
    /\ [](\A p \in Procs :
             (/\ pc[p] = "done" /\ ~DirExists(hl[p])
              /\ op[p] \in {"Executables", "Start", "Stop", "Halt"}) =>
                /\ res[p] = Errorf("is not installed")
                /\ execs[p] = <<>>
                /\ issued[p] = <<>>)
    /\ [][\A p \in Procs :
             (op[p] = "Halt" /\ ~DirExists(hl[p]) /\ Moved(p)) => last' = last]_vars

\* A Halt of a version that is not installed has failed, `last` pointing
\* elsewhere.
C9_Witness ==
    \E p \in Procs :
        /\ pc[p] = "done" /\ op[p] = "Halt" /\ ~DirExists(hl[p])
        /\ res[p] = Errorf("is not installed")
        /\ last.present

\* The executable expected for entry c of launchable `location`, found in
\* directory dir.
Expected(dir, c) ==
    [Service |-> [Path |-> Append(RunitRoot, Id \o "__" \o c),
                  Name |-> Id \o "__" \o c],
     ExecPath |-> Append(dir, c)]

\* C10: Executables of an installed launchable returns one executable per child
\* of a bin/launch directory, named <id>__<child> with service path
\* <RunitRoot>/<id>__<child> and executable path <installDir>/bin/launch/<child>;
\* for a regular file bin/launch exactly one, named <id>__launch with executable
\* path <installDir>/bin/launch; service names are pairwise different.
C10_ServiceDiscovery ==
    \A p \in Procs :
        (pc[p] = "done" /\ op[p] = "Executables" /\ res[p] = nil) =>
           LET tree == installs[Version(hl[p])]
               launch == <<"bin", "launch">>
               C == {n.path[3] : n \in {m \in tree : /\ Len(m.path) = 3
                                                     /\ SubSeq(m.path, 1, 2) = launch}}
               got == {execs[p][i] : i \in 1..Len(execs[p])}
           IN  /\ DirExists(hl[p])
               /\ Has(tree, launch)
               /\ Get(tree, launch).kind = "dir" =>
                     /\ Len(execs[p]) = Cardinality(C)
                     /\ got = {Expected(InstallDir(hl[p]) \o launch, c) : c \in C}
               /\ Get(tree, launch).kind = "file" =>
                     execs[p] = <<Expected(InstallDir(hl[p]) \o <<"bin">>, "launch")>>
               /\ \A i, j \in 1..Len(execs[p]) :
                     execs[p][i].Service.Name = execs[p][j].Service.Name => i = j

\* Executables has returned the services of a bin/launch directory with
\* several children.
C10_Witness ==
    \E p \in Procs :
        /\ pc[p] = "done" /\ op[p] = "Executables" /\ res[p] = nil
        /\ Get(installs[Version(hl[p])], <<"bin", "launch">>).kind = "dir"
        /\ Len(execs[p]) >= 2

\* The base name of a location ends in ".tar.gz".
HasSuffix(location) ==
    LET b == Base(location)
    IN  Len(b) >= Len(Suffix) /\ SubSeq(b, Len(b) - Len(Suffix) + 1, Len(b)) = Suffix

\* C11: for a location whose base name ends in ".tar.gz", Version() returns the
\* base name without that suffix, so the returned string followed by ".tar.gz"
\* is the base name; and InstallDir() is the join of RootDir, "installs" and
\* that string (the three components one after the other whenever the version
\* is an ordinary file name), whatever else the state holds.
C11_VersionDerivation ==
    \A p \in Procs :
        (pc[p] = "done" /\ op[p] = "Version" /\ HasSuffix(hl[p])) =>
            /\ res[p] = nil
            /\ \E s \in Stems : Base(hl[p]) = s \o Suffix /\ out[p] = Str(s)
            /\ out[p] \o ".tar.gz" = Str(Base(hl[p]))
            /\ InstallDir(hl[p]) = Join(RootDir \o <<"installs", out[p]>>)
            /\ out[p] \notin {"", ".", ".."} =>
                  InstallDir(hl[p]) = RootDir \o <<"installs", out[p]>>

\* Version() returned for a base name whose stem itself ends in bytes of the
\* suffix.
C11_Witness ==
    \E p \in Procs :
        /\ pc[p] = "done" /\ op[p] = "Version" /\ HasSuffix(hl[p])
        /\ out[p] = "a.z"
        /\ InstallDir(hl[p]) = <<"data", "pods", "app", "installs", "a.z">>

\* C12: when extraction handles a hardlink entry with name N and link name L,
\* the install directory afterwards holds a symlink at N whose target, resolved
\* from the directory of N, is L; no entry of any other kind is made for it,
\* and the step does not look at whether L exists.
C12_HardlinkRewrite ==
    [][\A p \in Procs :
          LET a == ArchiveAt(hl[p])
              t == installs'[Version(hl[p])]
          IN  (/\ pc[p] = "extract_next" /\ idx[p] <= Len(a)
               /\ a[idx[p]].type = "link"
               /\ idx'[p] = idx[p] + 1) =>
                 LET N == a[idx[p]].name
                     L == a[idx[p]].linkname
                 IN  /\ Has(t, N)
                     /\ Get(t, N).kind = "symlink"
                     /\ Clean(Dir(N) \o Get(t, N).target) = L
                     /\ \A n \in t : n.kind \in {"dir", "file", "symlink"}]_vars

\* The entry a/c/link -> a/b/target was extracted before a/b/target was.
C12_Witness ==
    \E p \in Procs :
        LET a == ArchiveAt(hl[p])
            t == installs[Version(hl[p])]
        IN  /\ pc[p] = "extract_next" /\ idx[p] > 1 /\ idx[p] <= Len(a)
            /\ a[idx[p] - 1] = Entry("link", <<"a", "c", "link">>, <<"a", "b", "target">>)
            /\ Has(t, <<"a", "c", "link">>)
            /\ Get(t, <<"a", "c", "link">>).kind = "symlink"
            /\ Get(t, <<"a", "c", "link">>).target = <<"..", "b", "target">>
            /\ ~Has(t, <<"a", "b", "target">>)

\* C13: a pointer (current or last) that targets an install directory present
\* on disk targets one whose extraction ran to the end: every entry of the
\* archive is there, files with their content.
C13_NoPartialViaPointer ==
    \A l \in Locations :
        \A ptr \in {current, last} :
            (ptr.present /\ ptr.target = InstallDir(l) /\ DirExists(l)) =>
                Extracted(l)

\* The error of the request a step of p issued.
IssuedErr(p) == issued'[p][Len(issued'[p])].err

C14_WitnessAllTolerated ==
    \E p \in Procs :
        /\ pc[p] = "done" /\ op[p] = "Start" /\ res[p] = nil
        /\ Len(execs[p]) = MaxServices /\ Len(issued[p]) = MaxServices
        /\ \A i \in 1..Len(issued[p]) : issued[p][i].err = SuperviseOkMissing

FlipPcs == {"flip_tmpdir", "flip_symlink", "flip_lchown", "flip_rename"}

\* C15: in Halt on an installed launchable whose disable hook exists, once
\* invoking the hook has failed no stop request is issued, `last` does not
\* change and Halt returns an error.
C15_HaltFailFast ==
    [][\A p \in Procs :
          (/\ op[p] = "Halt"
           /\ Extracted(hl[p])
           /\ Stat(installs[Version(hl[p])], <<"bin", "disable">>).ok
           /\ IsError(rets[p].hook)) =>
             /\ issued'[p] = <<>>
             /\ last' = last
             /\ pc'[p] = "done" => IsError(res'[p])]_vars

\* The rest of C15: a Halt whose Stop fails returns that error and leaves
\* `last` alone, and Halt reaches MakeLast only after Disable returned nil and
\* every executable got a stop request that succeeded.
C15_StopBeforeMakeLast ==
    [][\A p \in Procs :
          op[p] = "Halt" =>
            /\ (pc[p] \in {"executables", "stop_loop"} /\ pc'[p] = "done") =>
                  (IsError(res'[p]) /\ last' = last)
            /\ last' # last => pc[p] = "flip_rename"
            /\ pc[p] \in FlipPcs =>
                  /\ OptionalHook(rets[p].hook) = nil
                  /\ Len(issued[p]) = Len(execs[p])
                  /\ \A i \in 1..Len(issued[p]) :
                        issued[p][i] = Request("stop", execs[p][i], nil)]_vars

\* C16: the stop requests of Stop (called directly or from Halt) go to the
\* executables in the order Executables returned them, one each, and only
\* while every earlier one succeeded; a Stop that returns after a failed request
\* returns that request's error, and a Stop that returns nil has issued one
\* successful request for every executable.
C16_StopFailFast ==
    \A p \in Procs :
        op[p] \in {"Stop", "Halt"} =>
            /\ Len(issued[p]) <= Len(execs[p])
            /\ \A i \in 1..Len(issued[p]) :
                  /\ issued[p][i].req = "stop"
                  /\ issued[p][i].svc = execs[p][i].Service.Name
                  /\ i < Len(issued[p]) => issued[p][i].err = nil
            /\ (op[p] = "Stop" /\ pc[p] = "done") =>
                  /\ (issued[p] # <<>> /\ issued[p][Len(issued[p])].err # nil) =>
                        res[p] = issued[p][Len(issued[p])].err
                  /\ (res[p] = nil) =>
                        /\ Len(issued[p]) = Len(execs[p])
                        /\ \A i \in 1..Len(issued[p]) : issued[p][i].err = nil

\* Stop returned the error of its first request and left the other executables
\* without one.
C16_Witness ==
    \E p \in Procs :
        /\ op[p] = "Stop" /\ pc[p] = "done" /\ res[p] = SvError
        /\ Len(execs[p]) = MaxServices
        /\ Len(issued[p]) = 1 /\ issued[p][1].err = SvError

\* Stop returned nil with a stop request for each of several executables.
C16_WitnessAll ==
    \E p \in Procs :
        /\ op[p] = "Stop" /\ pc[p] = "done" /\ res[p] = nil
        /\ Len(execs[p]) = MaxServices /\ Len(issued[p]) = MaxServices

\* C17: no step of flipSymlink (in MakeCurrent, MakeLast or Halt) other than
\* the one that returns changes `current` or `last`; a step that returns an
\* error changes neither; and after any step that returns, the temporary
\* directory of the call is gone.
C17_FlipAllOrNothing ==
    [][\A p \in Procs :
          (pc[p] \in FlipPcs /\ Moved(p)) =>
              /\ pc'[p] # "done" => (current' = current /\ last' = last)
              /\ (pc'[p] = "done" /\ IsError(res'[p])) =>
                    (current' = current /\ last' = last)
              /\ pc'[p] = "done" => tmp'[p] = NoTmp]_vars

\* MakeCurrent failed at the rename while `current` pointed at an install
\* directory, and its temporary directory is gone.
C17_Witness ==
    \E p \in Procs :
        /\ op[p] = "MakeCurrent" /\ pc[p] = "done"
        /\ res[p] = Err("os.LinkError", "EACCES", "rename")
        /\ current.present
        /\ tmp[p] = NoTmp

ExtractPcs == {"extract_root", "extract_next", "extract_copy"}

\* C18: nothing but the existence of the install directory keeps an Install
\* from fetching and extracting: a process at the installed test of a version
\* whose directory does not exist can go on to the fetch whatever the other
\* processes are doing, another Install of the same version included.
C18_InstallUnguarded ==
    \A p \in Procs :
        (op[p] = "Install" /\ pc[p] = "install" /\ ~Installed(hl[p])) =>
            ENABLED (InstallCheck(p) /\ pc'[p] = "install_fetch")

\* Both processes found the version not installed, both fetched, and both
\* have extracted entries into the same install directory.
C18_Witness ==
    /\ \A p \in Procs :
          /\ op[p] = "Install" /\ fetched[p]
          /\ pc[p] \in ExtractPcs /\ idx[p] > 1
    /\ Version(hl["p1"]) = Version(hl["p2"])
    /\ DirExists(hl["p1"])

\* C19: while an Install of a version has returned nil with the version
\* completely extracted, no step of any process changes the contents of that
\* version's install directory.
C19_InstallDirImmutable ==
    [][\A q \in Procs :
          (/\ op[q] = "Install" /\ pc[q] = "done" /\ res[q] = nil
           /\ Extracted(hl[q])) =>
             installs'[Version(hl[q])] = installs[Version(hl[q])]]_vars

OrchestrationOps == {"Launch", "Start", "Stop", "Enable", "Disable",
                     "PostActivate", "Executables"}

\* C20: a step of Launch, Start, Stop, Enable, Disable, PostActivate or
\* Executables changes neither pointer nor any install directory; a step of
\* MakeCurrent changes at most `current`, of MakeLast and of Halt at most
\* `last`, of Install at most the install directory of its own version; and an
\* install directory that exists keeps existing in every step.
C20_Frame ==
    [][/\ \A p \in Procs :
            Moved(p) =>
              /\ op[p] \in OrchestrationOps =>
                    (current' = current /\ last' = last /\ installs' = installs)
              /\ op[p] = "MakeCurrent" => (last' = last /\ installs' = installs)
              /\ op[p] \in {"MakeLast", "Halt"} =>
                    (current' = current /\ installs' = installs)
              /\ op[p] = "Install" =>
                    /\ current' = current /\ last' = last
                    /\ \A v \in Versions \ {Version(hl[p])} :
                          installs'[v] = installs[v]
       /\ \A l \in Locations :
            Installed(l) => Stat(installs'[Version(l)], <<>>).ok]_vars

\* Halt has returned nil with `last` at its own version while `current` is
\* still at the other version, both versions on disk.
C20_Witness ==
    \E p \in Procs :
        /\ op[p] = "Halt" /\ pc[p] = "done" /\ res[p] = nil
        /\ last = Link(InstallDir(hl[p]), RunAs)
        /\ current.present /\ current.target # InstallDir(hl[p])
        /\ \A l \in Locations : DirExists(l)

====
